---- MODULE Spec2Model ----
(***************************************************************************)
(* Model of examples/hertz.py: the script that splits an imported mesh     *)
(* into two elastic bodies, selects their boundary regions by outward      *)
(* normal, declares the elasticity / Dirichlet / contact terms and runs    *)
(* the Newton solve before exporting the result.                           *)
(*                                                                         *)
(* Abstractions                                                            *)
(*  - angles are integers in units of 0.01 rad, so np.pi/2 is 157 units    *)
(*    and the tolerance 0.01 is 1 unit; a unit normal is its polar angle;  *)
(*  - only the y coordinate of a mesh point is kept (the split and the     *)
(*    projection Proj1 only look at it);                                   *)
(*  - every element carries one outer face, identified by its element;     *)
(*  - the unknown vector is sampled at one point of the contact region     *)
(*    (lambda1, un) and one point of each constrained region (viol);       *)
(*    lengths and pressures are integers, in units where                   *)
(*    gamma0*element_size = 1 and max_res = 1.                             *)
(***************************************************************************)
EXTENDS Integers, FiniteSets, Sequences, TLC

VARIABLES pc, P, cvpts, normal, mesh1, mesh2, fb, region, mfs, X2,
          lambda1, un, viol, iter, result, files, last, aug

vars == <<pc, P, cvpts, normal, mesh1, mesh2, fb, region, mfs, X2,
          lambda1, un, viol, iter, result, files, last, aug>>

meshvars == <<P, cvpts, normal, mesh1, mesh2, fb, region>>
solvevars == <<X2, lambda1, un, viol, iter, result>>

(* ---------------------------- bounds ----------------------------------- *)
NPts == 3
NElems == 2
MaxOff == 2
MaxU == 1
MaxViol == 1
MaxIn == 5

(* ------------------------ program constants ---------------------------- *)
HalfPi == 157
Tol001 == 1
YShift == 5
HOLE_BOUND == 1
CONTACT_BOUND == 2
BOTTOM_BOUND == 3
TOP_BOUND == 4
LEFT_BOUND == 5
max_res == 1
max_iter == 100
GammaH == 1
R0y == 1

Pi == 2 * HalfPi
TwoPi == 4 * HalfPi

Abs(x) == IF x < 0 THEN -x ELSE x
Max2(a, b) == IF a >= b THEN a ELSE b

RECURSIVE SetMax(_)
SetMax(S) == IF S = {} THEN 0
             ELSE LET x == CHOOSE y \in S : TRUE
                  IN Max2(x, SetMax(S \ {x}))

(* ------------------------------ mesh ----------------------------------- *)
Elems == DOMAIN cvpts
Pids == DOMAIN P

\* mesh.translate([0.0, 5.0])
translate(pts) == [p \in DOMAIN pts |-> pts[p] + YShift]

pid1_strict == {p \in Pids : P[p] > 0}

\* np.compress(c1, range(nbpts)) with c1 = P[1, :] >= 0.0
pid1 == {p \in Pids : P[p] >= 0}
\* np.compress(c2, range(nbpts)) with c2 = P[1, :] <= 0.0
pid2 == {p \in Pids : P[p] <= 0}

\* mesh.cvid_from_pid(pids): the convexes whose points all belong to pids
cvid_from_pid(pids) == {cv \in Elems : cvpts[cv] \subseteq pids}

cvid1 == cvid_from_pid(pid1)
cvid2 == cvid_from_pid(pid2)

\* m.del_convex(cvids)
del_convex(m, cvids) == m \ cvids

(* ----------------------- boundary selection ---------------------------- *)
Dirs == {<<1, 0>>, <<0, 1>>, <<-1, 0>>, <<0, -1>>}

\* polar angle of a direction vector of the script
PolarAngle(v) == CASE v = <<1, 0>> -> 0
                   [] v = <<0, 1>> -> HalfPi
                   [] v = <<-1, 0>> -> Pi
                   [] v = <<0, -1>> -> Pi + HalfPi

\* angle in [0, Pi] between two unit vectors given by their polar angles
Angle(a, b) == LET d == (a - b) % TwoPi
               IN IF d <= Pi THEN d ELSE TwoPi - d

outer_faces_lt(m, v, angle) ==
  {f \in m : Angle(normal[f], PolarAngle(v)) < angle}

\* m.outer_faces_with_direction(v, angle): the faces whose unit outward
\* normal has an angle less or equal to `angle` with v
outer_faces_with_direction(m, v, angle) ==
  {f \in m : Angle(normal[f], PolarAngle(v)) <= angle}

Meshes == {"mesh1", "mesh2"}
RegionIds == {HOLE_BOUND, CONTACT_BOUND, BOTTOM_BOUND, TOP_BOUND, LEFT_BOUND}

set_region_toggle(reg, m, rnum, faces) ==
  [reg EXCEPT ![m][rnum] = (reg[m][rnum] \ faces) \cup (faces \ reg[m][rnum])]

\* m.set_region(rnum, faces): region rnum of m becomes exactly `faces`
set_region(reg, m, rnum, faces) == [reg EXCEPT ![m][rnum] = faces]

NoRegions == [m \in Meshes |-> [r \in RegionIds |-> {}]]
NoFaces == [n \in {"fb2", "fb3", "fb4", "fb5", "fb6", "fb7"} |-> {}]

(* --------------------------- contact term ------------------------------ *)
neg_part_id(t) == IF t < 0 THEN t ELSE 0

\* neg_part of the weak form language: the negative part ( . )_- : R -> R+
neg_part(t) == IF t < 0 THEN -t ELSE 0

\* second component of Proj1, the transformation [X(1); -X(2)]
Proj1y(y) == -y

\* (u1 - Interpolate(u2,Proj1) + X - Interpolate(X,Proj1)).[0;1]
Gap(u, x2) == u + x2 - Proj1y(x2)

\* lambda1 + (1/(gamma0*element_size)) * gap
AugLambda(lam, g) == lam + g \div GammaH

ContactTerm_nogap(lam, g) == -GammaH * (lam + neg_part(lam))

\* -(gamma0*element_size)*(lambda1 + neg_part(lambda1 + ...)), the factor of
\* Test_lambda1 in the second nonlinear term
ContactTerm(lam, g) == -GammaH * (lam + neg_part(AugLambda(lam, g)))

(* ------------------------------ solve ---------------------------------- *)
Constrained == {<<"mesh1", TOP_BOUND>>, <<"mesh1", LEFT_BOUND>>,
                <<"mesh2", LEFT_BOUND>>, <<"mesh2", BOTTOM_BOUND>>}

\* constraint rows exist only on regions that have faces
ActiveConstrained == {c \in Constrained : region[c[1]][c[2]] # {}}

\* lambda1 is a filtered variable: it has dofs only on CONTACT_BOUND of mesh1
ContactActive == region["mesh1"][CONTACT_BOUND] # {}

\* H.(u - r) at u = 0: r0 = [0, -0.1] with H0 = [[0,0],[0,1]]; r1, r2, r3 = 0
InitialViol(c) == IF c = <<"mesh1", TOP_BOUND>> THEN R0y ELSE 0

\* norm of the residual: the largest row
Residual ==
  SetMax({Abs(viol[c]) : c \in ActiveConstrained}
         \cup (IF ContactActive
               THEN {Abs(ContactTerm(lambda1, Gap(un, X2)))} ELSE {}))

UVals == -MaxU .. MaxU
ViolVals == 0 .. MaxViol

(* --------------------------- initial states ---------------------------- *)
Cardinal == {0, HalfPi, Pi, Pi + HalfPi}
NormalSamples == {(c + o) % TwoPi : c \in Cardinal, o \in -MaxOff .. MaxOff}
RawYs == {-YShift - 1, -YShift, -YShift + 1}

\* points on the raw heights -6, -5, -4, ...: after the translation point 2
\* lies on the line y = 0, point 1 below it and the others above it
LayeredPts == [p \in 1 .. NPts |-> p - 2 - YShift]
UpperElem == {2, 3}
LowerElem == {1, 2}

InitRest ==
  /\ pc = "translate"
  /\ mesh1 = {} /\ mesh2 = {}
  /\ fb = NoFaces
  /\ region = NoRegions
  /\ mfs = {}
  /\ X2 = 0 /\ lambda1 = 0 /\ un = 0
  /\ viol = [c \in Constrained |-> 0]
  /\ iter = 0
  /\ result = "none"
  /\ files = {}
  /\ last = <<>>
  /\ aug = <<>>

\* the state after gf.Mesh("import", "gmsh", "hertz.msh"): an upper and a lower
\* element that meet on the line y = -5, each with one outer face; the two
\* faces look at each other, or the upper one sideways, or away from each other
Init ==
  /\ P = LayeredPts
  /\ cvpts = <<UpperElem, LowerElem>>
  /\ normal \in {<<Pi + HalfPi, HalfPi>>, <<0, HalfPi>>,
                  <<HalfPi, Pi + HalfPi>>}
  /\ InitRest

\* imported meshes with arbitrary point heights and elements; an element of
\* a 2D mesh has a positive area and so has a point off any given line
InitSplit ==
  /\ P \in [1 .. NPts -> RawYs]
  /\ cvpts \in [1 .. NElems -> SUBSET (1 .. NPts) \ {{}}]
  /\ \A cv \in 1 .. NElems : \E p \in cvpts[cv] : P[p] # -YShift
  /\ normal = [cv \in 1 .. NElems |-> HalfPi]
  /\ InitRest

\* imported meshes with arbitrary outward normals
InitNormals ==
  /\ P = LayeredPts
  /\ cvpts \in [1 .. NElems -> {UpperElem, LowerElem}]
  /\ normal \in [1 .. NElems -> NormalSamples]
  /\ InitRest

(* ------------------------------ script --------------------------------- *)
\* mesh.translate([0.0, 5.0])
Translate ==
  /\ pc = "translate"
  /\ P' = translate(P)
  /\ pc' = "split"
  /\ UNCHANGED <<cvpts, normal, mesh1, mesh2, fb, region, mfs, solvevars,
                 files, last, aug>>

\* the two clones with the other body's convexes deleted, exported and drawn
Split ==
  /\ pc = "split"
  /\ mesh1' = del_convex(Elems, cvid2)
  /\ mesh2' = del_convex(Elems, cvid1)
  /\ files' = files \cup {"mesh1.vtk", "mesh2.vtk", "mesh.png"}
  /\ pc' = "select"
  /\ UNCHANGED <<P, cvpts, normal, fb, region, mfs, solvevars, last, aug>>

\* the six outer_faces_with_direction calls
SelectedFaces ==
  [fb2 |-> outer_faces_with_direction(mesh1, <<0, -1>>, HalfPi),
   fb3 |-> outer_faces_with_direction(mesh2, <<0, -1>>, Tol001),
   fb4 |-> outer_faces_with_direction(mesh1, <<0, 1>>, HalfPi),
   fb5 |-> outer_faces_with_direction(mesh2, <<0, 1>>, HalfPi),
   fb6 |-> outer_faces_with_direction(mesh1, <<-1, 0>>, Tol001),
   fb7 |-> outer_faces_with_direction(mesh2, <<-1, 0>>, Tol001)]

SelectBoundaries ==
  /\ pc = "select"
  /\ fb' = SelectedFaces
  /\ pc' = "assign"
  /\ UNCHANGED <<P, cvpts, normal, mesh1, mesh2, region, mfs, solvevars,
                 files, last, aug>>

\* the six set_region calls
AssignedRegions(reg, f) ==
  set_region(
   set_region(
    set_region(
     set_region(
      set_region(
       set_region(reg, "mesh1", CONTACT_BOUND, f.fb2),
       "mesh2", BOTTOM_BOUND, f.fb3),
      "mesh1", TOP_BOUND, f.fb4),
     "mesh2", CONTACT_BOUND, f.fb5),
    "mesh1", LEFT_BOUND, f.fb6),
   "mesh2", LEFT_BOUND, f.fb7)

AssignRegions ==
  /\ pc = "assign"
  /\ region' = AssignedRegions(region, fb)
  /\ pc' = "fem"
  /\ UNCHANGED <<P, cvpts, normal, mesh1, mesh2, fb, mfs, solvevars,
                 files, last, aug>>

SetupFem_refine ==
  /\ pc = "fem"
  /\ mfs' = {"mfu1", "mfd1", "mflambda", "mflambda_C", "mfu2", "mfd2",
             "mfvm1", "mfvm2", "mim1", "mim2"}
  /\ region' = NoRegions
  /\ pc' = "model"
  /\ UNCHANGED <<P, cvpts, normal, mesh1, mesh2, fb, solvevars,
                 files, last, aug>>

\* the MeshFem and MeshIm objects built on mesh1 and mesh2
SetupFem ==
  /\ pc = "fem"
  /\ mfs' = {"mfu1", "mfd1", "mflambda", "mflambda_C", "mfu2", "mfd2",
             "mfvm1", "mfvm2", "mim1", "mim2"}
  /\ pc' = "model"
  /\ UNCHANGED <<meshvars, solvevars, files, last, aug>>

\* heights of the points of the slave contact region
ContactYs == {P[p] : p \in UNION {cvpts[f] : f \in region["mesh1"][CONTACT_BOUND]}}

\* the model: variables u1, u2 and lambda1 start at zero, the bricks and the
\* two nonlinear contact terms are declared
SetupModel ==
  /\ pc = "model"
  /\ lambda1' = 0
  /\ un' = 0
  /\ viol' = [c \in Constrained |->
                IF c \in ActiveConstrained THEN InitialViol(c) ELSE 0]
  /\ IF ContactActive THEN X2' \in ContactYs ELSE X2' = 0
  /\ iter' = 0
  /\ pc' = "solve"
  /\ UNCHANGED <<meshvars, mfs, result, files, last, aug>>

SolveFinished_nocap == Residual < max_res

\* md.solve("max_res", 1e-9, "max_iter", 100): the loop stops once the
\* residual is below max_res or max_iter iterations were made
SolveFinished == Residual < max_res \/ iter >= max_iter

\* one Newton iteration: a new value of the unknowns
NewtonStep ==
  /\ pc = "solve"
  /\ ~SolveFinished
  /\ IF ContactActive
       THEN lambda1' \in UVals /\ un' \in UVals
       ELSE UNCHANGED <<lambda1, un>>
  /\ viol' \in {v \in [Constrained -> ViolVals] :
                  \A c \in Constrained \ ActiveConstrained : v[c] = 0}
  /\ iter' = iter + 1
  /\ UNCHANGED <<pc, meshvars, mfs, X2, result, files, last, aug>>

\* md.solve returns; the script does not look at what it returns
SolveReturn ==
  /\ pc = "solve"
  /\ SolveFinished
  /\ result' = IF Residual < max_res THEN "converged" ELSE "nonconvergent"
  /\ pc' = "post"
  /\ UNCHANGED <<meshvars, mfs, X2, lambda1, un, viol, iter, files, last, aug>>

\* U1, U2, VM1, VM2 are read from the model and exported
PostProcess ==
  /\ pc = "post"
  /\ files' = files \cup {"displacement_with_von_mises1.vtk",
                          "displacement_with_von_mises2.vtk"}
  /\ pc' = "plot"
  /\ UNCHANGED <<meshvars, mfs, solvevars, last, aug>>

\* the pyvista plot of the exported files
PlotResult ==
  /\ pc = "plot"
  /\ files' = files \cup {"von_mises.png"}
  /\ pc' = "done"
  /\ UNCHANGED <<meshvars, mfs, solvevars, last, aug>>

Next ==
  \/ Translate
  \/ Split
  \/ SelectBoundaries
  \/ AssignRegions
  \/ SetupFem
  \/ SetupModel
  \/ NewtonStep
  \/ SolveReturn
  \/ PostProcess
  \/ PlotResult

Spec == Init /\ [][Next]_vars

(* ------------- the Newton loop from arbitrary unknowns ----------------- *)
\* md.solve entered with any value of the unknowns, on two bodies whose faces
\* look at each other (a contact region) or away from each other (a clamped
\* region on each body)
InitSolve ==
  /\ P = translate(LayeredPts)
  /\ cvpts = <<UpperElem, LowerElem>>
  /\ normal \in {<<Pi + HalfPi, HalfPi>>, <<HalfPi, Pi + HalfPi>>}
  /\ mesh1 = {1} /\ mesh2 = {2}
  /\ fb = SelectedFaces
  /\ region = AssignedRegions(NoRegions, fb)
  /\ mfs = {}
  /\ X2 \in (IF ContactActive THEN ContactYs ELSE {0})
  /\ lambda1 \in (IF ContactActive THEN UVals ELSE {0})
  /\ un \in (IF ContactActive THEN UVals ELSE {0})
  /\ viol \in {v \in [Constrained -> ViolVals] :
                 \A c \in Constrained \ ActiveConstrained : v[c] = 0}
  /\ iter = 0
  /\ result = "none"
  /\ pc = "solve"
  /\ files = {}
  /\ last = <<>>
  /\ aug = <<>>

NextSolve ==
  \/ NewtonStep
  \/ SolveReturn

\* the library runs the loop until it returns
SpecSolve == InitSolve /\ [][NextSolve]_vars /\ WF_vars(NextSolve)

(* ------------------- the mesh stage on arbitrary meshes ---------------- *)
InitMesh == InitSplit \/ InitNormals

NextMesh ==
  \/ Translate
  \/ Split
  \/ SelectBoundaries
  \/ AssignRegions

SpecMesh == InitMesh /\ [][NextMesh]_vars

(* ------------- the classifier on arbitrary directions ------------------ *)
TolSamples == {0, Tol001, HalfPi - 1, HalfPi, Pi}

\* two outer faces of mesh1 with arbitrary normals, no region assigned yet
InitClassifier ==
  /\ P = translate(LayeredPts)
  /\ cvpts = <<UpperElem, UpperElem>>
  /\ normal \in [1 .. 2 -> NormalSamples]
  /\ pc = "classify"
  /\ mesh1 = {1, 2} /\ mesh2 = {}
  /\ fb = NoFaces
  /\ region = NoRegions
  /\ mfs = {}
  /\ X2 = 0 /\ lambda1 = 0 /\ un = 0
  /\ viol = [c \in Constrained |-> 0]
  /\ iter = 0
  /\ result = "none"
  /\ files = {}
  /\ last = <<>>
  /\ aug = <<>>

\* mesh1.set_region(rnum, mesh1.outer_faces_with_direction(v, angle))
ClassifyAndSet ==
  /\ pc = "classify"
  /\ \E v \in Dirs, angle \in TolSamples :
       /\ region' = set_region(region, "mesh1", CONTACT_BOUND,
                               outer_faces_with_direction(mesh1, v, angle))
       /\ last' = [v |-> v, angle |-> angle,
                   again |-> last # <<>> /\ last.v = v /\ last.angle = angle]
  /\ UNCHANGED <<pc, P, cvpts, normal, mesh1, mesh2, fb, mfs, solvevars,
                 files, aug>>

SpecClassifier == InitClassifier /\ [][ClassifyAndSet]_vars

(* ---------------- the contact term on arbitrary values ----------------- *)
InVals == -MaxIn .. MaxIn

InitContact ==
  /\ P = translate(LayeredPts)
  /\ cvpts = <<UpperElem, LowerElem>>
  /\ normal = <<Pi + HalfPi, HalfPi>>
  /\ pc = "assemble"
  /\ mesh1 = {1} /\ mesh2 = {2}
  /\ fb = NoFaces
  /\ region = NoRegions
  /\ mfs = {}
  /\ X2 = 0 /\ lambda1 = 0 /\ un = 0
  /\ viol = [c \in Constrained |-> 0]
  /\ iter = 0
  /\ result = "none"
  /\ files = {}
  /\ last = <<>>
  /\ aug = <<>>

\* the multiplier term evaluated at a point with multiplier lam and gap g
AssembleContact ==
  /\ pc = "assemble"
  /\ \E lam \in InVals, g \in InVals :
       LET t == AugLambda(lam, g)
       IN aug' = [lam |-> lam, g |-> g, t |-> t,
                  val |-> neg_part(t),
                  left |-> neg_part(t) - neg_part(t - 1),
                  right |-> neg_part(t + 1) - neg_part(t),
                  term |-> ContactTerm(lam, g)]
  /\ UNCHANGED <<pc, meshvars, mfs, solvevars, files, last>>

SpecContact == InitContact /\ [][AssembleContact]_vars

(* ============================== claims ================================= *)
Exported == pc \in {"plot", "done"}
SolveDone == result # "none"

\* C1: result files are exported only from a solve that converged: a solve
\* that used up max_iter with the residual still at or above max_res is not
\* carried on to the reading of u1/u2 and the export.
C1_NonConvergenceSurfaced == Exported => result = "converged"

\* the gap and the multiplier at the sampled point of the slave contact region
GapNow == Gap(un, X2)

RegionsOf(m) == IF m = "mesh1" THEN {CONTACT_BOUND, TOP_BOUND, LEFT_BOUND}
                ELSE {BOTTOM_BOUND, CONTACT_BOUND, LEFT_BOUND}

\* C3: once the regions are assigned, no face of a body belongs to two of
\* the regions assigned to that body.
C3_RegionsDisjoint ==
  pc = "fem" =>
    \A m \in Meshes : \A r1, r2 \in RegionsOf(m) :
       r1 # r2 => region[m][r1] \cap region[m][r2] = {}

\* C4: after a classifier call with direction v and tolerance angle, a face is
\* in the region iff the angle of its normal to v is <= angle; so a face whose
\* normal is v is always selected, and a face at exactly pi/2 is selected iff
\* the tolerance is at least pi/2.
C4_ClosedInterval ==
  (pc = "classify" /\ last # <<>>) =>
    \A f \in mesh1 :
      LET a == Angle(normal[f], PolarAngle(last.v))
          sel == f \in region["mesh1"][CONTACT_BOUND]
      IN /\ sel <=> a <= last.angle
         /\ normal[f] = PolarAngle(last.v) => sel
         /\ a = HalfPi => (sel <=> last.angle >= HalfPi)

C4_Witness ==
  /\ pc = "classify" /\ last # <<>> /\ last.angle = HalfPi
  /\ \E f \in mesh1 :
       /\ Angle(normal[f], PolarAngle(last.v)) = HalfPi
       /\ f \in region["mesh1"][CONTACT_BOUND]
  /\ \E f \in mesh1 : f \notin region["mesh1"][CONTACT_BOUND]

\* C5: the Newton loop makes at most max_iter iterations, makes none once the
\* residual is below max_res, always returns, and returns "converged" exactly
\* when the residual is below max_res and "nonconvergent" exactly when the
\* cap was reached with the residual at or above max_res.
C5_NewtonTerminates ==
  /\ [](iter <= max_iter)
  /\ [](SolveDone =>
          /\ result \in {"converged", "nonconvergent"}
          /\ result = "converged" <=> Residual < max_res
          /\ result = "nonconvergent" <=>
               (iter = max_iter /\ Residual >= max_res))
  /\ [][(pc = "solve" /\ Residual < max_res) => iter' = iter]_vars
  /\ <>SolveDone

C5_Witness == result = "nonconvergent" /\ iter = max_iter

\* C6: once the solve has finished, H.(u - r) is below the solver tolerance
\* on every constrained region.
C6_ClampedEnforced ==
  SolveDone => \A c \in ActiveConstrained : Abs(viol[c]) < max_res

C8_NegPartAsStated ==
  (pc = "assemble" /\ aug # <<>>) =>
     /\ aug.t < 0 => (aug.val = aug.t /\ aug.left = 1 /\ aug.right = 1)
     /\ aug.t >= 0 => (aug.val = 0 /\ aug.right = 0)

\* C8 (amended): the negative part of lambda_aug is -lambda_aug, with slope
\* -1, where lambda_aug < 0, and zero with slope 0 where lambda_aug >= 0; at
\* lambda_aug = 0 its value is 0 and its one-sided slopes are -1 and 0.
C8_NegPart ==
  (pc = "assemble" /\ aug # <<>>) =>
     /\ aug.t < 0 => (aug.val = -aug.t /\ aug.left = -1 /\ aug.right = -1)
     /\ aug.t >= 0 => (aug.val = 0 /\ aug.right = 0)
     /\ aug.t = 0 => aug.left = -1
     /\ aug.val >= 0

C8_Witness == pc = "assemble" /\ aug # <<>> /\ aug.t < -1 /\ aug.lam # aug.t

\* C9: from the step after the region assignment on, no step changes the
\* elements of mesh1 or mesh2 or the faces of any region.
C9_TopologyFixed ==
  [][(pc \in {"fem", "model", "solve", "post", "plot"}) =>
       (mesh1' = mesh1 /\ mesh2' = mesh2 /\ cvpts' = cvpts
        /\ normal' = normal /\ region' = region)]_vars

C9_Witness ==
  /\ pc = "done" /\ iter > 0
  /\ mesh1 # {} /\ mesh2 # {}
  /\ region["mesh1"][CONTACT_BOUND] # {}

\* heights of the points of element cv
YsOf(cv) == {P[p] : p \in cvpts[cv]}
Straddles(cv) == (\E y \in YsOf(cv) : y > 0) /\ (\E y \in YsOf(cv) : y < 0)
Split2Done == pc \in {"select", "assign", "fem"}

====
